---- MODULE Spec2Model ----
(***************************************************************************)
(* Model of the vantage6 algorithm store: the review consensus state       *)
(* machine (resource/review.py), the digest assignment worker              *)
(* (resource/algorithm.py) and the manifest client of the registry         *)
(* (common/docker/addons.py).                                              *)
(***************************************************************************)
EXTENDS Integers, Sequences, FiniteSets, TLC

(***************************************************************************)
(* Bounds of the model                                                     *)
(***************************************************************************)
MaxAlgorithms == 1
MaxUsers == 3
MaxReviews == 2
MaxThreads == 1
\* worker runs in flight while patches are served in steps
MaxRuns == 2

NULL == "null"

(***************************************************************************)
(* Enumerations                                                            *)
(***************************************************************************)
AWAITING_REVIEWER_ASSIGNMENT == "awaiting reviewer assignment"
UNDER_REVIEW == "under review"
APPROVED == "approved"
REJECTED == "rejected"
DROPPED == "dropped"

AlgorithmStatus == {AWAITING_REVIEWER_ASSIGNMENT, UNDER_REVIEW, APPROVED, REJECTED}
ReviewStatus == {UNDER_REVIEW, APPROVED, REJECTED, DROPPED}

\* HTTPStatus codes returned by the handlers
CREATED == 201
OK == 200
BAD_REQUEST == 400
UNAUTHORIZED == 401
NOT_FOUND == 404

(***************************************************************************)
(* Inputs                                                                  *)
(***************************************************************************)
Users == 1..MaxUsers
AlgorithmIds == 1..MaxAlgorithms
ReviewIds == 1..MaxReviews
\* values of datetime.datetime.now()
Times == {"now"}
Comments == {NULL, "comment"}

\* image references a client can send: a tagged one, and one whose tag is
\* a 64-character hexadecimal string (HexTag)
HexTag == "hex64"
Images == {"algo:latest", "algo:hex64"}
\* digests a docker daemon can report for an image (RepoDigests)
RepoDigests == {"sha256:d1", "sha256:d2"}

\* images whose digest is asked of a registry (get_digest)
FullImages == {"harbor2.vantage6.ai/demo/average:latest", "library/hello-world"}

\* status codes a registry answers a manifest request with, and a token
\* service a token request
Statuses == {OK, 202, UNAUTHORIZED, NOT_FOUND, 500}
TokenStatuses == {OK, UNAUTHORIZED}

\* values of the www-authenticate header: the scheme followed by the names
\* of the parameters in the order they are written, <<>> when the response
\* has no such header. The Bearer challenges carry realm, service and scope
\* in each of the six orders, or lack the scope.
ChallengeKeys == {"realm", "service", "scope"}
BearerChallenges ==
    {<<"Bearer">> \o p : p \in {q \in [1..3 -> ChallengeKeys] :
                                    \A i, j \in 1..3 : q[i] = q[j] => i = j}}
Challenges ==
    {<<>>, <<"Bearer", "realm", "service">>, <<"Basic", "realm">>}
        \cup BearerChallenges

\* the value a challenge gives to a parameter
ParamValue(key) ==
    CASE key = "realm" -> "https://auth.docker.io/token"
      [] key = "service" -> "registry.docker.io"
      [] key = "scope" -> "repository:pull"

\* manifests a registry serves, as the (key, value) pairs of the JSON object
Manifests ==
    { << <<"schemaVersion", "2">> >>,
      << <<"schemaVersion", "2">>, <<"mediaType", "\"manifest.v2\"">> >> }

\* values of the Docker-Content-Digest header, NULL when the response has
\* no such header
ContentDigests == {NULL, "sha256:c1"}

\* requests.Response of a manifest request
ManifestResponses ==
    [status_code : Statuses, www_authenticate : Challenges,
     content_digest : ContentDigests, json : Manifests]

\* requests.Response of a token request: has_token tells whether the body
\* has a "token" entry
Tokens == {"token1"}
TokenResponses == [status_code : TokenStatuses, has_token : BOOLEAN, token : Tokens]

\* no response received
NoResponse ==
    [status_code |-> 0, www_authenticate |-> <<>>,
     content_digest |-> NULL, json |-> <<>>]

VARIABLES
    algorithms,     \* table Algorithm: sequence indexed by id
    reviews,        \* table Review: function from the ids in use to rows
    next_review_id, \* autoincrement primary key of table Review
    threads,        \* digest worker threads that were started and have not exited
    approving,      \* approve requests that saved their review and have not yet read the siblings
    response,       \* the response of the last request
    review_own_algorithm,
                    \* self.config["dev"]["review_own_algorithm"], FALSE
                    \* when the configuration has no such entry
    client,         \* the call of get_digest in progress: its position, the
                    \* requests it has sent, the last manifest response
    posting,        \* review create requests that passed their checks and have not yet written
    patches         \* per algorithm, the last patch served in steps: its image, and
                    \* whether the handler has assigned and saved it

vars == <<algorithms, reviews, next_review_id, threads, approving, response,
          review_own_algorithm, client, posting, patches>>

(***************************************************************************)
(* Model classes (vantage6.algorithm.store.model). The classes are not     *)
(* among the sources; their methods are defined as the specification       *)
(* (sections 3 and 4.4) describes them.                                    *)
(***************************************************************************)
\* User.is_reviewer(): every user but the first holds the reviewer role
is_reviewer(u) == u # 1

\* status of a freshly constructed Algorithm / Review row
DefaultAlgorithmStatus == AWAITING_REVIEWER_ASSIGNMENT
DefaultReviewStatus == UNDER_REVIEW

\* Algorithm.reviews: the rows of table Review that point at algorithm a
ReviewsOf(revs, a) == {r \in DOMAIN revs : revs[r].algorithm_id = a}

\* Algorithm.is_review_finished()
is_review_finished(alg) == alg.status \in {APPROVED, REJECTED}

\* Algorithm.are_all_reviews_approved()
are_all_reviews_approved(revs, a) ==
    \A r \in ReviewsOf(revs, a) :
        revs[r].status # DROPPED => revs[r].status = APPROVED

\* Algorithm.approve()
approve(algs, a) == [algs EXCEPT ![a].status = APPROVED]

\* Algorithm.developer: the user who developed algorithm a. Algorithm a is
\* the work of user a + 1, a user who holds the reviewer role.
developer(a) == a + 1

\* what a handler returns: {"msg": msg}, code
Response(op, code, msg) == [op |-> op, code |-> code, msg |-> msg]

(***************************************************************************)
(* Initial state: empty tables, no request made; the server is started     *)
(* with or without the development policy review_own_algorithm             *)
(***************************************************************************)
Init ==
    /\ review_own_algorithm \in BOOLEAN
    /\ algorithms = <<>>
    /\ reviews = <<>>
    /\ next_review_id = 1
    /\ threads = {}
    /\ approving = {}
    /\ response = Response("none", 0, "")
    /\ client = [pc |-> "idle", full_image |-> "", calls |-> <<>>,
                 response |-> NoResponse,
                 result |-> [kind |-> "none", msg |-> "", digest |-> NULL]]
    /\ posting = {}
    /\ patches = <<>>


(***************************************************************************)
(* resource/algorithm.py                                                   *)
(***************************************************************************)
\* Thread(target=self._save_image_digest, args=(algorithm_id, image_name)).start()
StartThread(a, image_name) ==
    threads \cup {[algorithm_id |-> a, image_name |-> image_name, pc |-> "split"]}

\* a bug: the digest is looked up before the request returns
AlgorithmsPost_Synchronous(image) ==
    /\ Len(algorithms) < MaxAlgorithms
    /\ Cardinality(threads) < MaxThreads
    /\ \E digest \in RepoDigests :
            algorithms' = Append(algorithms,
                [image |-> image, digest |-> digest,
                 status |-> DefaultAlgorithmStatus, invalidated_at |-> NULL])
    /\ response' = Response("algorithm_post", CREATED, "")
    /\ UNCHANGED <<reviews, next_review_id, threads, approving, review_own_algorithm, client, posting, patches>>

\* Algorithms.post: register an algorithm and start the digest worker
AlgorithmsPost(image) ==
    /\ Len(algorithms) < MaxAlgorithms
    /\ Cardinality(threads) < MaxThreads
    /\ algorithms' = Append(algorithms,
            [image |-> image, digest |-> NULL,
             status |-> DefaultAlgorithmStatus, invalidated_at |-> NULL])
    /\ threads' = StartThread(Len(algorithms) + 1, image)
    /\ response' = Response("algorithm_post", CREATED, "")
    /\ UNCHANGED <<reviews, next_review_id, approving, review_own_algorithm, client, posting, patches>>

\* a bug: refresh_digest is not looked at
AlgorithmPatch_NoRefresh(id, image, refresh_digest) ==
    IF id \notin DOMAIN algorithms
    THEN /\ response' = Response("algorithm_patch", NOT_FOUND, "Algorithm not found")
         /\ UNCHANGED <<algorithms, reviews, next_review_id, threads, approving, review_own_algorithm, client, posting, patches>>
    ELSE /\ IF image # algorithms[id].image
            THEN /\ Cardinality(threads) < MaxThreads
                 /\ threads' = StartThread(id,
                        IF image # NULL THEN image ELSE algorithms[id].image)
            ELSE UNCHANGED threads
         /\ algorithms' = IF image # NULL
                          THEN [algorithms EXCEPT ![id].image = image]
                          ELSE algorithms
         /\ response' = Response("algorithm_patch", OK, "")
         /\ UNCHANGED <<reviews, next_review_id, approving, review_own_algorithm, client, posting, patches>>

\* Algorithm.patch, the image field: the image of the request replaces the
\* stored one, and the digest is resolved for the image of the request or,
\* without one, for the stored image
Patched(algs, id, image) ==
    IF image # NULL THEN [algs EXCEPT ![id].image = image] ELSE algs

RunImage(algs, id, image) == IF image # NULL THEN image ELSE algs[id].image

\* a bug: a patch that gives an image clears the digest that is stored
AlgorithmPatch_ClearsDigest(id, image, refresh_digest) ==
    IF id \notin DOMAIN algorithms
    THEN /\ response' = Response("algorithm_patch", NOT_FOUND, "Algorithm not found")
         /\ UNCHANGED <<algorithms, reviews, next_review_id, threads, approving, review_own_algorithm, client, posting, patches>>
    ELSE /\ IF image # algorithms[id].image \/ refresh_digest
            THEN /\ Cardinality(threads) < MaxThreads
                 /\ threads' = StartThread(id, RunImage(algorithms, id, image))
            ELSE UNCHANGED threads
         /\ algorithms' = IF image # NULL
                          THEN [algorithms EXCEPT ![id].image = image,
                                                  ![id].digest = NULL]
                          ELSE algorithms
         /\ response' = Response("algorithm_patch", OK, "")
         /\ UNCHANGED <<reviews, next_review_id, approving, review_own_algorithm, client, posting, patches>>

\* Algorithm.patch: image is the "image" field of the body (NULL when the
\* body has none), refresh_digest its "refresh_digest" field
AlgorithmPatch(id, image, refresh_digest) ==
    IF id \notin DOMAIN algorithms
    THEN /\ response' = Response("algorithm_patch", NOT_FOUND, "Algorithm not found")
         /\ UNCHANGED <<algorithms, reviews, next_review_id, threads, approving, review_own_algorithm, client, posting, patches>>
    ELSE /\ IF image # algorithms[id].image \/ refresh_digest
            THEN /\ Cardinality(threads) < MaxThreads
                 /\ threads' = StartThread(id, RunImage(algorithms, id, image))
            ELSE UNCHANGED threads
         /\ algorithms' = Patched(algorithms, id, image)
         /\ response' = Response("algorithm_patch", OK, "")
         /\ UNCHANGED <<reviews, next_review_id, approving, review_own_algorithm, client, posting, patches>>

\* Algorithm.patch, from the request to thread.start(): the worker is
\* started for the image of the request. The request is recorded in patches
\* until it continues with AlgorithmPatchEnd; the patches of one algorithm
\* are served one after the other
AlgorithmPatchBegin(id, image, refresh_digest) ==
    /\ id \in DOMAIN patches => patches[id].saved
    /\ IF id \notin DOMAIN algorithms
       THEN /\ response' = Response("algorithm_patch", NOT_FOUND, "Algorithm not found")
            /\ UNCHANGED <<threads, patches>>
       ELSE /\ IF image # algorithms[id].image \/ refresh_digest
               THEN /\ Cardinality(threads) < MaxRuns
                    /\ threads' = StartThread(id, RunImage(algorithms, id, image))
               ELSE UNCHANGED threads
            /\ patches' = [a \in DOMAIN patches \cup {id} |->
                    IF a = id THEN [image |-> image, saved |-> FALSE]
                    ELSE patches[a]]
            /\ UNCHANGED response
    /\ UNCHANGED <<algorithms, reviews, next_review_id, approving, review_own_algorithm, client, posting>>

\* Algorithm.patch, after thread.start(): the image of the request is
\* assigned, the algorithm is saved and the request is answered
AlgorithmPatchEnd(id) ==
    /\ id \in DOMAIN patches
    /\ ~patches[id].saved
    /\ algorithms' = Patched(algorithms, id, patches[id].image)
    /\ patches' = [patches EXCEPT ![id].saved = TRUE]
    /\ response' = Response("algorithm_patch", OK, "")
    /\ UNCHANGED <<reviews, next_review_id, threads, approving, review_own_algorithm, client, posting>>

\* split_tag_from_image: <<image without tag, tag>>; <<NULL, NULL>> stands
\* for the ValueError raised for a reference that has no tag
split_tag_from_image(image_name) ==
    CASE image_name = "algo:latest" -> <<"algo", "latest">>
      [] image_name = "algo:hex64" -> <<"algo", HexTag>>
      [] OTHER -> <<NULL, NULL>>

is_hex_digest(tag) == tag = HexTag

\* a bug: the worker writes the row back as it was registered
_store_digest_ResetsStatus(algs, image_wo_tag, digest, algorithm_id) ==
    [algs EXCEPT ![algorithm_id].image = image_wo_tag,
                 ![algorithm_id].digest = digest,
                 ![algorithm_id].status = DefaultAlgorithmStatus,
                 ![algorithm_id].invalidated_at = NULL]

\* a bug: the digest is stored and the image keeps its tag
_store_digest_DigestOnly(algs, image_wo_tag, digest, algorithm_id) ==
    [algs EXCEPT ![algorithm_id].digest = digest]

\* a bug: a refresh clears a digest that is stored, and stores the digest
\* only for an algorithm that has none
_store_digest_ClearsStored(algs, image_wo_tag, digest, algorithm_id) ==
    [algs EXCEPT ![algorithm_id].image = image_wo_tag,
                 ![algorithm_id].digest =
                     IF algs[algorithm_id].digest = NULL THEN digest ELSE NULL]

\* AlgorithmBaseResource._store_digest
_store_digest(algs, image_wo_tag, digest, algorithm_id) ==
    [algs EXCEPT ![algorithm_id].image = image_wo_tag,
                 ![algorithm_id].digest = digest]

\* _save_image_digest up to the docker lookup: split the tag off the image;
\* a tag that is a hex digest is stored as the digest
SplitRaises(image_name) == split_tag_from_image(image_name)[1] = NULL

AfterSplit(algs, algorithm_id, image_name) ==
    LET split == split_tag_from_image(image_name) IN
    IF ~SplitRaises(image_name) /\ is_hex_digest(split[2])
    THEN _store_digest(algs, split[1], split[2], algorithm_id)
    ELSE algs

WorkerSplit(t) ==
    /\ t \in threads
    /\ t.pc = "split"
    /\ threads' = IF SplitRaises(t.image_name)
                  THEN threads \ {t}
                  ELSE (threads \ {t}) \cup {[t EXCEPT !.pc = "lookup"]}
    /\ algorithms' = AfterSplit(algorithms, t.algorithm_id, t.image_name)
    /\ UNCHANGED <<reviews, next_review_id, approving, response, review_own_algorithm, client, posting, patches>>

\* _save_image_digest from the docker lookup on: the image is not found and
\* the thread exits, or the first repo digest is stored
AfterLookup(algs, algorithm_id, image_name, found, digest) ==
    IF found
    THEN _store_digest(algs, split_tag_from_image(image_name)[1], digest,
                       algorithm_id)
    ELSE algs

\* the digest the docker daemon reports for an image: the images differ
\* in their digests
Resolved(image_name) ==
    CASE image_name = "algo:latest" -> "sha256:d1"
      [] image_name = "algo:hex64" -> "sha256:d2"

WorkerLookup(t, found, digest) ==
    /\ t \in threads
    /\ t.pc = "lookup"
    /\ threads' = threads \ {t}
    /\ algorithms' = AfterLookup(algorithms, t.algorithm_id, t.image_name,
                                 found, digest)
    /\ UNCHANGED <<reviews, next_review_id, approving, response, review_own_algorithm, client, posting, patches>>


(***************************************************************************)
(* resource/review.py                                                      *)
(***************************************************************************)
\* the message of PostRefusal for a request that passes all checks
PASSED == ""

\* a bug: only an approved algorithm counts as finished
PostRefusal_ApprovedOnly(algorithm_id, reviewer_id) ==
    IF algorithm_id \notin DOMAIN algorithms
    THEN "Algorithm not found"
    ELSE IF algorithms[algorithm_id].status = APPROVED
    THEN "Algorithm review is already finished!"
    ELSE IF reviewer_id \notin Users
    THEN "Reviewer not found"
    ELSE IF ~is_reviewer(reviewer_id)
    THEN "User is not allowed to review algorithms!"
    ELSE IF reviewer_id = developer(algorithm_id) /\ ~review_own_algorithm
    THEN "You cannot assign the developer of the algorithm to review their own algorithm!"
    ELSE IF \E r \in DOMAIN reviews :
                /\ reviews[r].algorithm_id = algorithm_id
                /\ reviews[r].reviewer_id = reviewer_id
    THEN "Reviewer has already reviewed this algorithm!"
    ELSE PASSED

\* a bug: the developer may be assigned whatever the configuration says
PostRefusal_NoDeveloperCheck(algorithm_id, reviewer_id) ==
    IF algorithm_id \notin DOMAIN algorithms
    THEN "Algorithm not found"
    ELSE IF is_review_finished(algorithms[algorithm_id])
    THEN "Algorithm review is already finished!"
    ELSE IF reviewer_id \notin Users
    THEN "Reviewer not found"
    ELSE IF ~is_reviewer(reviewer_id)
    THEN "User is not allowed to review algorithms!"
    ELSE IF \E r \in DOMAIN reviews :
                /\ reviews[r].algorithm_id = algorithm_id
                /\ reviews[r].reviewer_id = reviewer_id
    THEN "Reviewer has already reviewed this algorithm!"
    ELSE PASSED

\* a bug: a reviewer may be assigned to the same algorithm again
PostRefusal_NoDuplicateCheck(algorithm_id, reviewer_id) ==
    IF algorithm_id \notin DOMAIN algorithms
    THEN "Algorithm not found"
    ELSE IF is_review_finished(algorithms[algorithm_id])
    THEN "Algorithm review is already finished!"
    ELSE IF reviewer_id \notin Users
    THEN "Reviewer not found"
    ELSE IF ~is_reviewer(reviewer_id)
    THEN "User is not allowed to review algorithms!"
    ELSE IF reviewer_id = developer(algorithm_id) /\ ~review_own_algorithm
    THEN "You cannot assign the developer of the algorithm to review their own algorithm!"
    ELSE PASSED

\* Reviews.post, the checks before the review is created: the message of
\* the first check that fails, PASSED if none does
PostRefusal(algorithm_id, reviewer_id) ==
    IF algorithm_id \notin DOMAIN algorithms
    THEN "Algorithm not found"
    ELSE IF is_review_finished(algorithms[algorithm_id])
    THEN "Algorithm review is already finished!"
    ELSE IF reviewer_id \notin Users
    THEN "Reviewer not found"
    ELSE IF ~is_reviewer(reviewer_id)
    THEN "User is not allowed to review algorithms!"
    ELSE IF reviewer_id = developer(algorithm_id) /\ ~review_own_algorithm
    THEN "You cannot assign the developer of the algorithm to review their own algorithm!"
    ELSE IF \E r \in DOMAIN reviews :
                /\ reviews[r].algorithm_id = algorithm_id
                /\ reviews[r].reviewer_id = reviewer_id
    THEN "Reviewer has already reviewed this algorithm!"
    ELSE PASSED

\* a bug: the algorithm is put under review before the reviewer is checked
ReviewsPost_StatusFirst(algorithm_id, reviewer_id) ==
    /\ IF PostRefusal(algorithm_id, reviewer_id) # PASSED
       THEN /\ response' = Response("review_post", BAD_REQUEST,
                                    PostRefusal(algorithm_id, reviewer_id))
            /\ algorithms' =
                 IF /\ algorithm_id \in DOMAIN algorithms
                    /\ ~is_review_finished(algorithms[algorithm_id])
                 THEN [algorithms EXCEPT ![algorithm_id].status = UNDER_REVIEW]
                 ELSE algorithms
            /\ UNCHANGED <<reviews, next_review_id>>
       ELSE /\ next_review_id <= MaxReviews
            /\ reviews' = [r \in DOMAIN reviews \cup {next_review_id} |->
                    IF r = next_review_id
                    THEN [algorithm_id |-> algorithm_id, reviewer_id |-> reviewer_id,
                          status |-> DefaultReviewStatus, comment |-> NULL]
                    ELSE reviews[r]]
            /\ next_review_id' = next_review_id + 1
            /\ algorithms' = [algorithms EXCEPT ![algorithm_id].status = UNDER_REVIEW]
            /\ response' = Response("review_post", CREATED, "")
    /\ UNCHANGED <<threads, approving, review_own_algorithm, client, posting, patches>>

\* a bug: the review is created and the algorithm keeps its status
ReviewsPost_KeepStatus(algorithm_id, reviewer_id) ==
    /\ IF PostRefusal(algorithm_id, reviewer_id) # PASSED
       THEN /\ response' = Response("review_post", BAD_REQUEST,
                                    PostRefusal(algorithm_id, reviewer_id))
            /\ UNCHANGED <<algorithms, reviews, next_review_id>>
       ELSE /\ next_review_id <= MaxReviews
            /\ reviews' = [r \in DOMAIN reviews \cup {next_review_id} |->
                    IF r = next_review_id
                    THEN [algorithm_id |-> algorithm_id, reviewer_id |-> reviewer_id,
                          status |-> DefaultReviewStatus, comment |-> NULL]
                    ELSE reviews[r]]
            /\ next_review_id' = next_review_id + 1
            /\ UNCHANGED algorithms
            /\ response' = Response("review_post", CREATED, "")
    /\ UNCHANGED <<threads, approving, review_own_algorithm, client, posting, patches>>

\* Reviews.post: assign reviewer reviewer_id to algorithm algorithm_id
ReviewsPost(algorithm_id, reviewer_id) ==
    /\ IF PostRefusal(algorithm_id, reviewer_id) # PASSED
       THEN /\ response' = Response("review_post", BAD_REQUEST,
                                    PostRefusal(algorithm_id, reviewer_id))
            /\ UNCHANGED <<algorithms, reviews, next_review_id>>
       ELSE /\ next_review_id <= MaxReviews
            /\ reviews' = [r \in DOMAIN reviews \cup {next_review_id} |->
                    IF r = next_review_id
                    THEN [algorithm_id |-> algorithm_id, reviewer_id |-> reviewer_id,
                          status |-> DefaultReviewStatus, comment |-> NULL]
                    ELSE reviews[r]]
            /\ next_review_id' = next_review_id + 1
            /\ algorithms' = [algorithms EXCEPT ![algorithm_id].status = UNDER_REVIEW]
            /\ response' = Response("review_post", CREATED, "")
    /\ UNCHANGED <<threads, approving, review_own_algorithm, client, posting, patches>>

\* Reviews.post, from the request to the last check. A request that passed
\* the checks is recorded in posting until it continues with ReviewsPostEnd
ReviewsPostBegin(algorithm_id, reviewer_id) ==
    /\ IF PostRefusal(algorithm_id, reviewer_id) # PASSED
       THEN /\ response' = Response("review_post", BAD_REQUEST,
                                    PostRefusal(algorithm_id, reviewer_id))
            /\ UNCHANGED posting
       ELSE /\ posting' = posting \cup
                    {[algorithm_id |-> algorithm_id, reviewer_id |-> reviewer_id]}
            /\ UNCHANGED response
    /\ UNCHANGED <<algorithms, reviews, next_review_id, threads, approving, review_own_algorithm, client, patches>>

\* Reviews.post, after the checks: the review is created and saved, the
\* algorithm is put under review and saved, and the request is answered
ReviewsPostEnd(p) ==
    /\ p \in posting
    /\ next_review_id <= MaxReviews
    /\ reviews' = [r \in DOMAIN reviews \cup {next_review_id} |->
            IF r = next_review_id
            THEN [algorithm_id |-> p.algorithm_id, reviewer_id |-> p.reviewer_id,
                  status |-> DefaultReviewStatus, comment |-> NULL]
            ELSE reviews[r]]
    /\ next_review_id' = next_review_id + 1
    /\ algorithms' = [algorithms EXCEPT ![p.algorithm_id].status = UNDER_REVIEW]
    /\ posting' = posting \ {p}
    /\ response' = Response("review_post", CREATED, "")
    /\ UNCHANGED <<threads, approving, review_own_algorithm, client, patches>>

\* a bug: the algorithm is approved when any other review is left
StatusAfterDelete_AnyOther(algs, revs, id) ==
    LET a == revs[id].algorithm_id
        other_reviews == ReviewsOf(revs, a) \ {id}
    IN
    IF is_review_finished(algs[a]) THEN algs
    ELSE IF other_reviews = {}
    THEN [algs EXCEPT ![a].status = AWAITING_REVIEWER_ASSIGNMENT]
    ELSE [algs EXCEPT ![a].status = APPROVED]

\* a bug: an algorithm left without reviews counts as approved by all
StatusAfterDelete_EmptyApproved(algs, revs, id) ==
    LET a == revs[id].algorithm_id
        other_reviews == ReviewsOf(revs, a) \ {id}
    IN
    IF is_review_finished(algs[a]) THEN algs
    ELSE IF \A r \in other_reviews : revs[r].status = APPROVED
    THEN [algs EXCEPT ![a].status = APPROVED]
    ELSE algs

\* a bug: deleting a review never approves the algorithm
StatusAfterDelete_NeverApproved(algs, revs, id) ==
    LET a == revs[id].algorithm_id
        other_reviews == ReviewsOf(revs, a) \ {id}
    IN
    IF is_review_finished(algs[a]) THEN algs
    ELSE IF other_reviews = {}
    THEN [algs EXCEPT ![a].status = AWAITING_REVIEWER_ASSIGNMENT]
    ELSE algs

\* a bug: the status is recomputed whether or not the review is finished
StatusAfterDelete_AlsoFinished(algs, revs, id) ==
    LET a == revs[id].algorithm_id
        other_reviews == ReviewsOf(revs, a) \ {id}
    IN
    IF other_reviews = {}
    THEN [algs EXCEPT ![a].status = AWAITING_REVIEWER_ASSIGNMENT]
    ELSE IF \A r \in other_reviews : revs[r].status = APPROVED
    THEN [algs EXCEPT ![a].status = APPROVED]
    ELSE algs

\* Review.delete: the status of the algorithm of review id, recomputed from
\* the other reviews while the review of the algorithm is not finished
StatusAfterDelete(algs, revs, id) ==
    LET a == revs[id].algorithm_id
        other_reviews == ReviewsOf(revs, a) \ {id}
    IN
    IF is_review_finished(algs[a]) THEN algs
    ELSE IF other_reviews = {}
    THEN [algs EXCEPT ![a].status = AWAITING_REVIEWER_ASSIGNMENT]
    ELSE IF \A r \in other_reviews : revs[r].status = APPROVED
    THEN [algs EXCEPT ![a].status = APPROVED]
    ELSE algs

\* a bug: the reviews of an approved algorithm may be deleted
ReviewDelete_ApprovedToo(id) ==
    /\ IF id \notin DOMAIN reviews
       THEN /\ response' = Response("review_delete", NOT_FOUND, "Review not found")
            /\ UNCHANGED <<algorithms, reviews>>
       ELSE /\ algorithms' = StatusAfterDelete(algorithms, reviews, id)
            /\ reviews' = [r \in DOMAIN reviews \ {id} |-> reviews[r]]
            /\ response' = Response("review_delete", OK, "deleted")
    /\ UNCHANGED <<next_review_id, threads, approving, review_own_algorithm, client, posting, patches>>

\* a bug: the reviews of a rejected algorithm are protected as those of an
\* approved one
ReviewDelete_FinishedProtected(id) ==
    /\ IF id \notin DOMAIN reviews
       THEN /\ response' = Response("review_delete", NOT_FOUND, "Review not found")
            /\ UNCHANGED <<algorithms, reviews>>
       ELSE IF is_review_finished(algorithms[reviews[id].algorithm_id])
       THEN /\ response' = Response("review_delete", BAD_REQUEST,
                        "Reviews of approved algorithms may not be deleted!")
            /\ UNCHANGED <<algorithms, reviews>>
       ELSE /\ algorithms' = StatusAfterDelete(algorithms, reviews, id)
            /\ reviews' = [r \in DOMAIN reviews \ {id} |-> reviews[r]]
            /\ response' = Response("review_delete", OK, "deleted")
    /\ UNCHANGED <<next_review_id, threads, approving, review_own_algorithm, client, posting, patches>>

\* Review.delete
ReviewDelete(id) ==
    /\ IF id \notin DOMAIN reviews
       THEN /\ response' = Response("review_delete", NOT_FOUND, "Review not found")
            /\ UNCHANGED <<algorithms, reviews>>
       ELSE IF /\ is_review_finished(algorithms[reviews[id].algorithm_id])
               /\ algorithms[reviews[id].algorithm_id].status = APPROVED
       THEN /\ response' = Response("review_delete", BAD_REQUEST,
                        "Reviews of approved algorithms may not be deleted!")
            /\ UNCHANGED <<algorithms, reviews>>
       ELSE /\ algorithms' = StatusAfterDelete(algorithms, reviews, id)
            /\ reviews' = [r \in DOMAIN reviews \ {id} |-> reviews[r]]
            /\ response' = Response("review_delete", OK, "deleted")
    /\ UNCHANGED <<next_review_id, threads, approving, review_own_algorithm, client, posting, patches>>

\* ReviewApprove.post: review.status = APPROVED, the comment if the body has
\* one (comment is data.get("comment")), review.save()
ApproveSave(revs, id, comment) ==
    [revs EXCEPT ![id].status = APPROVED,
                 ![id].comment = IF comment # NULL THEN comment ELSE @]

\* a bug: the algorithm is approved by the first approval
ApproveDecide_Always(algs, revs, a) == approve(algs, a)

\* a bug: an approval leaves the algorithm as it is
ApproveDecide_Never(algs, revs, a) == algs

\* a bug: the algorithm is approved only by the approvals of two reviewers
ApproveDecide_NeedsTwo(algs, revs, a) ==
    IF are_all_reviews_approved(revs, a) /\ Cardinality(ReviewsOf(revs, a)) >= 2
    THEN approve(algs, a)
    ELSE algs

\* ReviewApprove.post: the algorithm is approved if all reviews it has after
\* the review was saved are approved
ApproveDecide(algs, revs, a) ==
    IF are_all_reviews_approved(revs, a) THEN approve(algs, a) ELSE algs

\* ReviewApprove.post, from the request to review.save(): the checks, and
\* the write of the review. A request that passed them is recorded in
\* approving until it continues with ReviewApproveEnd
ReviewApproveBegin(id, user) ==
    /\ IF id \notin DOMAIN reviews
       THEN /\ response' = Response("review_approve", NOT_FOUND, "Review not found")
            /\ UNCHANGED <<reviews, approving>>
       ELSE IF reviews[id].reviewer_id # user
       THEN /\ response' = Response("review_approve", UNAUTHORIZED,
                        "You are not assigned to this review!")
            /\ UNCHANGED <<reviews, approving>>
       ELSE IF reviews[id].status # UNDER_REVIEW
       THEN /\ response' = Response("review_approve", BAD_REQUEST,
                        "This review can no longer be approved!")
            /\ UNCHANGED <<reviews, approving>>
       ELSE /\ \E comment \in Comments : reviews' = ApproveSave(reviews, id, comment)
            /\ approving' = approving \cup {id}
            /\ UNCHANGED response
    /\ UNCHANGED <<algorithms, next_review_id, threads, review_own_algorithm, client, posting, patches>>

\* a bug: the decision is taken only by the approval of the review that was
\* assigned last, as if the reviewers approved in the order of assignment
ReviewApproveEnd_LastAssigned(id) ==
    /\ id \in approving
    /\ algorithms' =
         IF \A r \in ReviewsOf(reviews, reviews[id].algorithm_id) : r <= id
         THEN ApproveDecide(algorithms, reviews, reviews[id].algorithm_id)
         ELSE algorithms
    /\ approving' = approving \ {id}
    /\ response' = Response("review_approve", OK, "approved")
    /\ UNCHANGED <<reviews, next_review_id, threads, review_own_algorithm, client, posting, patches>>

\* ReviewApprove.post, after review.save(): read the reviews of the
\* algorithm, approve it if all are approved, and respond
ReviewApproveEnd(id) ==
    /\ id \in approving
    /\ algorithms' = ApproveDecide(algorithms, reviews, reviews[id].algorithm_id)
    /\ approving' = approving \ {id}
    /\ response' = Response("review_approve", OK, "approved")
    /\ UNCHANGED <<reviews, next_review_id, threads, review_own_algorithm, client, posting, patches>>

\* a bug: a review is approved whatever its status
ReviewApprove_AnyStatus(id, user) ==
    /\ IF id \notin DOMAIN reviews
       THEN /\ response' = Response("review_approve", NOT_FOUND, "Review not found")
            /\ UNCHANGED <<algorithms, reviews>>
       ELSE IF reviews[id].reviewer_id # user
       THEN /\ response' = Response("review_approve", UNAUTHORIZED,
                        "You are not assigned to this review!")
            /\ UNCHANGED <<algorithms, reviews>>
       ELSE /\ \E comment \in Comments : reviews' = ApproveSave(reviews, id, comment)
            /\ algorithms' = ApproveDecide(algorithms, reviews', reviews[id].algorithm_id)
            /\ response' = Response("review_approve", OK, "approved")
    /\ UNCHANGED <<next_review_id, threads, approving, review_own_algorithm, client, posting, patches>>

\* ReviewApprove.post served as one step
ReviewApprove(id, user) ==
    /\ IF id \notin DOMAIN reviews
       THEN /\ response' = Response("review_approve", NOT_FOUND, "Review not found")
            /\ UNCHANGED <<algorithms, reviews>>
       ELSE IF reviews[id].reviewer_id # user
       THEN /\ response' = Response("review_approve", UNAUTHORIZED,
                        "You are not assigned to this review!")
            /\ UNCHANGED <<algorithms, reviews>>
       ELSE IF reviews[id].status # UNDER_REVIEW
       THEN /\ response' = Response("review_approve", BAD_REQUEST,
                        "This review can no longer be approved!")
            /\ UNCHANGED <<algorithms, reviews>>
       ELSE /\ \E comment \in Comments : reviews' = ApproveSave(reviews, id, comment)
            /\ algorithms' = ApproveDecide(algorithms, reviews', reviews[id].algorithm_id)
            /\ response' = Response("review_approve", OK, "approved")
    /\ UNCHANGED <<next_review_id, threads, approving, review_own_algorithm, client, posting, patches>>

\* ReviewReject.post: review.status = REJECTED, the comment if the body has
\* one, review.save()
RejectSave(revs, id, comment) ==
    [revs EXCEPT ![id].status = REJECTED,
                 ![id].comment = IF comment # NULL THEN comment ELSE @]

\* a bug: invalidated_at is not set
RejectAlgorithm_NoInvalidatedAt(algs, a, now) ==
    [algs EXCEPT ![a].status = REJECTED]

\* ReviewReject.post: the algorithm is rejected and invalidated now
RejectAlgorithm(algs, a, now) ==
    [algs EXCEPT ![a].status = REJECTED, ![a].invalidated_at = now]

\* a bug: the other reviews are left as they are
DropOthers_None(revs, id) == revs

\* a bug: only the other reviews that are under review are dropped
DropOthers_PendingOnly(revs, id) ==
    [r \in DOMAIN revs |->
        IF /\ r # id
           /\ revs[r].algorithm_id = revs[id].algorithm_id
           /\ revs[r].status = UNDER_REVIEW
        THEN [revs[r] EXCEPT !.status = DROPPED]
        ELSE revs[r]]

\* ReviewReject.post: the other reviews of the algorithm of review id are
\* dropped
DropOthers(revs, id) ==
    [r \in DOMAIN revs |->
        IF r # id /\ revs[r].algorithm_id = revs[id].algorithm_id
        THEN [revs[r] EXCEPT !.status = DROPPED]
        ELSE revs[r]]

\* a bug: any user may reject a review
ReviewReject_AnyUser(id, user) ==
    /\ IF id \notin DOMAIN reviews
       THEN /\ response' = Response("review_reject", NOT_FOUND, "Review not found")
            /\ UNCHANGED <<algorithms, reviews>>
       ELSE IF reviews[id].status # UNDER_REVIEW
       THEN /\ response' = Response("review_reject", BAD_REQUEST,
                        "This review can no longer be approved!")
            /\ UNCHANGED <<algorithms, reviews>>
       ELSE /\ \E comment \in Comments :
                    reviews' = DropOthers(RejectSave(reviews, id, comment), id)
            /\ \E now \in Times :
                    algorithms' = RejectAlgorithm(algorithms, reviews[id].algorithm_id, now)
            /\ response' = Response("review_reject", OK, "rejected")
    /\ UNCHANGED <<next_review_id, threads, approving, review_own_algorithm, client, posting, patches>>

\* a bug: a review is rejected whatever its status
ReviewReject_AnyStatus(id, user) ==
    /\ IF id \notin DOMAIN reviews
       THEN /\ response' = Response("review_reject", NOT_FOUND, "Review not found")
            /\ UNCHANGED <<algorithms, reviews>>
       ELSE IF reviews[id].reviewer_id # user
       THEN /\ response' = Response("review_reject", UNAUTHORIZED,
                        "You are not assigned to this review!")
            /\ UNCHANGED <<algorithms, reviews>>
       ELSE /\ \E comment \in Comments :
                    reviews' = DropOthers(RejectSave(reviews, id, comment), id)
            /\ \E now \in Times :
                    algorithms' = RejectAlgorithm(algorithms, reviews[id].algorithm_id, now)
            /\ response' = Response("review_reject", OK, "rejected")
    /\ UNCHANGED <<next_review_id, threads, approving, review_own_algorithm, client, posting, patches>>

\* ReviewReject.post
ReviewReject(id, user) ==
    /\ IF id \notin DOMAIN reviews
       THEN /\ response' = Response("review_reject", NOT_FOUND, "Review not found")
            /\ UNCHANGED <<algorithms, reviews>>
       ELSE IF reviews[id].reviewer_id # user
       THEN /\ response' = Response("review_reject", UNAUTHORIZED,
                        "You are not assigned to this review!")
            /\ UNCHANGED <<algorithms, reviews>>
       ELSE IF reviews[id].status # UNDER_REVIEW
       THEN /\ response' = Response("review_reject", BAD_REQUEST,
                        "This review can no longer be approved!")
            /\ UNCHANGED <<algorithms, reviews>>
       ELSE /\ \E comment \in Comments :
                    reviews' = DropOthers(RejectSave(reviews, id, comment), id)
            /\ \E now \in Times :
                    algorithms' = RejectAlgorithm(algorithms, reviews[id].algorithm_id, now)
            /\ response' = Response("review_reject", OK, "rejected")
    /\ UNCHANGED <<next_review_id, threads, approving, review_own_algorithm, client, posting, patches>>

(***************************************************************************)
(* common/docker/addons.py: get_digest and get_manifest                    *)
(***************************************************************************)
\* parse_image_name: <<registry, repository, tag>>
parse_image_name(image) ==
    CASE image = "harbor2.vantage6.ai/demo/average:latest" ->
            <<"harbor2.vantage6.ai", "demo/average", "latest">>
      [] image = "library/hello-world" ->
            <<"docker.io", "library/hello-world", "latest">>

\* get_manifest: the registry that serves the manifests
manifest_registry(registry) ==
    IF registry = "docker.io" THEN "registry-1.docker.io" ELSE registry

\* get_manifest: manifest_endpoint
manifest_endpoint(full_image) ==
    LET parsed == parse_image_name(full_image) IN
    "https://" \o manifest_registry(parsed[1]) \o "/v2/" \o parsed[2]
        \o "/manifests/" \o parsed[3]

\* a request sent with requests.get
Request(url, params, authorization) ==
    [url |-> url, params |-> params, authorization |-> authorization]

\* re.match(realm_pattern, header): the header begins with Bearer realm="..."
realm_match(header) ==
    /\ Len(header) >= 2
    /\ header[1] = "Bearer"
    /\ header[2] = "realm"

\* re.search(scope_pattern, header), re.search(service_pattern, header)
scope_match(header) == \E i \in 1..Len(header) : header[i] = "scope"
service_match(header) == \E i \in 1..Len(header) : header[i] = "service"

\* a bug: a challenge is followed whatever the status of the response
challenge_accepted_AnyStatus(r) ==
    /\ r.www_authenticate # <<>>
    /\ realm_match(r.www_authenticate)
    /\ scope_match(r.www_authenticate)
    /\ service_match(r.www_authenticate)

\* get_manifest: the anonymous response is answered with a token request
challenge_accepted(r) ==
    /\ r.status_code = UNAUTHORIZED
    /\ r.www_authenticate # <<>>
    /\ realm_match(r.www_authenticate)
    /\ scope_match(r.www_authenticate)
    /\ service_match(r.www_authenticate)

\* json.dumps(manifest, indent=3): the entries of the object
RECURSIVE dumps_entries(_)
dumps_entries(manifest) ==
    IF Len(manifest) = 0 THEN ""
    ELSE "\n   \"" \o manifest[1][1] \o "\": " \o manifest[1][2]
            \o (IF Len(manifest) > 1 THEN "," ELSE "")
            \o dumps_entries(Tail(manifest))

json_dumps(manifest) ==
    IF Len(manifest) = 0 THEN "{}"
    ELSE "{" \o dumps_entries(manifest) \o "\n}"

\* hashlib.sha256(data).hexdigest(): one digest for each data
hexdigest(data) == "hex<" \o data \o ">"

__calculate_digest(manifest) == "sha256:" \o hexdigest(json_dumps(manifest))

\* what a call of get_digest ends with: an exception, or the digest returned
Raised(kind, msg) == [kind |-> kind, msg |-> msg, digest |-> NULL]
Returned(digest) == [kind |-> "returned", msg |-> "", digest |-> digest]

\* a bug: every status but 404 counts as a manifest
Outcome_NotFoundOnly(full_image, r) ==
    LET parsed == parse_image_name(full_image) IN
    IF r.status_code = NOT_FOUND
    THEN Raised("ValueError", "Image " \o parsed[2] \o ":" \o parsed[3]
                    \o " from registry " \o manifest_registry(parsed[1])
                    \o " not found!")
    ELSE IF r.content_digest # NULL
    THEN Returned(r.content_digest)
    ELSE Returned(__calculate_digest(r.json))

\* a bug: the digest is always computed from the body
Outcome_AlwaysHashed(full_image, r) ==
    LET parsed == parse_image_name(full_image) IN
    IF r.status_code = NOT_FOUND
    THEN Raised("ValueError", "Image " \o parsed[2] \o ":" \o parsed[3]
                    \o " from registry " \o manifest_registry(parsed[1])
                    \o " not found!")
    ELSE IF r.status_code # OK
    THEN Raised("ValueError", "Could not retrieve image manifest from "
                    \o manifest_endpoint(full_image))
    ELSE Returned(__calculate_digest(r.json))

\* get_manifest, "handle errors or return manifest", and get_digest after it:
\* what the call ends with when r is the last manifest response
Outcome(full_image, r) ==
    LET parsed == parse_image_name(full_image) IN
    IF r.status_code = NOT_FOUND
    THEN Raised("ValueError", "Image " \o parsed[2] \o ":" \o parsed[3]
                    \o " from registry " \o manifest_registry(parsed[1])
                    \o " not found!")
    ELSE IF r.status_code # OK
    THEN Raised("ValueError", "Could not retrieve image manifest from "
                    \o manifest_endpoint(full_image))
    ELSE IF r.content_digest # NULL
    THEN Returned(r.content_digest)
    ELSE Returned(__calculate_digest(r.json))

\* the variables of the store
store_vars ==
    <<algorithms, reviews, next_review_id, threads, approving, response,
      review_own_algorithm, posting, patches>>

\* get_digest(full_image) is called: the anonymous manifest request is sent
get_digest(full_image) ==
    /\ client.pc \in {"idle", "done"}
    /\ client' = [pc |-> "anonymous", full_image |-> full_image,
                  calls |-> <<Request(manifest_endpoint(full_image), <<>>, NULL)>>,
                  response |-> NoResponse,
                  result |-> [kind |-> "none", msg |-> "", digest |-> NULL]]
    /\ UNCHANGED store_vars

\* get_manifest: the anonymous request is answered with r. A 401 with a
\* challenge the patterns match is followed by the token request
AnonymousResponse(r) ==
    /\ client.pc = "anonymous"
    /\ IF challenge_accepted(r)
       THEN client' = [client EXCEPT
                !.pc = "token",
                !.response = r,
                !.calls = Append(@, Request(ParamValue("realm"),
                            <<ParamValue("scope"), ParamValue("service")>>, NULL))]
       ELSE client' = [client EXCEPT
                !.pc = "done",
                !.response = r,
                !.result = Outcome(client.full_image, r)]
    /\ UNCHANGED store_vars

\* get_manifest: the token request is answered with token_response. A 200
\* is followed by the manifest request with the token
TokenResponse(token_response) ==
    /\ client.pc = "token"
    /\ IF token_response.status_code = OK
       THEN IF token_response.has_token
            THEN client' = [client EXCEPT
                    !.pc = "retry",
                    !.calls = Append(@, Request(manifest_endpoint(client.full_image),
                                <<>>, "Bearer " \o token_response.token))]
            ELSE client' = [client EXCEPT
                    !.pc = "done", !.result = Raised("KeyError", "token")]
       ELSE client' = [client EXCEPT
                !.pc = "done",
                !.result = Outcome(client.full_image, client.response)]
    /\ UNCHANGED store_vars

\* a bug: a challenge in the answer to the request with the token is
\* followed by another token request, up to three times
RetryResponse_Again(r) ==
    /\ client.pc = "retry"
    /\ IF challenge_accepted(r) /\ Len(client.calls) < 9
       THEN client' = [client EXCEPT
                !.pc = "token",
                !.response = r,
                !.calls = Append(@, Request(ParamValue("realm"),
                            <<ParamValue("scope"), ParamValue("service")>>, NULL))]
       ELSE client' = [client EXCEPT
                !.pc = "done",
                !.response = r,
                !.result = Outcome(client.full_image, r)]
    /\ UNCHANGED store_vars

\* get_manifest: the manifest request with the token is answered with r
RetryResponse(r) ==
    /\ client.pc = "retry"
    /\ client' = [client EXCEPT
            !.pc = "done",
            !.response = r,
            !.result = Outcome(client.full_image, r)]
    /\ UNCHANGED store_vars

\* requests.get(..., timeout=60): no answer comes within the timeout
RequestTimeout ==
    /\ client.pc \in {"anonymous", "token", "retry"}
    /\ client' = [client EXCEPT !.pc = "done", !.result = Raised("Timeout", "")]
    /\ UNCHANGED store_vars


(***************************************************************************)
(* Spec: the store. Every request is served as one step; the digest        *)
(* worker threads run beside the requests.                                 *)
(***************************************************************************)
Next ==
    \/ \E image \in Images : AlgorithmsPost(image)
    \/ \E id \in AlgorithmIds, image \in Images \cup {NULL}, refresh_digest \in BOOLEAN :
            AlgorithmPatch(id, image, refresh_digest)
    \/ \E t \in threads : WorkerSplit(t)
    \/ \E t \in threads, found \in BOOLEAN, digest \in RepoDigests :
            WorkerLookup(t, found, digest)
    \/ \E a \in AlgorithmIds, u \in 0..MaxUsers : ReviewsPost(a, u)
    \/ \E id \in ReviewIds : ReviewDelete(id)
    \/ \E id \in ReviewIds, u \in Users : ReviewApprove(id, u)
    \/ \E id \in ReviewIds, u \in Users : ReviewReject(id, u)

Spec == Init /\ [][Next]_vars

(***************************************************************************)
(* SpecReview: the review subsystem alone. Algorithms are registered and   *)
(* reviews are created, approved, rejected and deleted, each request as    *)
(* one step; no algorithm is patched and no digest worker makes a step.    *)
(***************************************************************************)
NextReview ==
    \/ AlgorithmsPost("algo:latest")
    \/ \E a \in AlgorithmIds, u \in 0..MaxUsers : ReviewsPost(a, u)
    \/ \E id \in ReviewIds : ReviewDelete(id)
    \/ \E id \in ReviewIds, u \in Users : ReviewApprove(id, u)
    \/ \E id \in ReviewIds, u \in Users : ReviewReject(id, u)

SpecReview == Init /\ [][NextReview]_vars

(***************************************************************************)
(* SpecFrame: registration, patch and the digest worker next to reviews.   *)
(* Algorithms are registered with a tagged image and patched with the same *)
(* image or with none; one reviewer, the last user, is assigned to them    *)
(* and approves or rejects.                                                *)
(***************************************************************************)
NextFrame ==
    \/ AlgorithmsPost("algo:latest")
    \/ \E id \in AlgorithmIds, image \in {"algo:latest", NULL}, refresh_digest \in BOOLEAN :
            AlgorithmPatch(id, image, refresh_digest)
    \/ \E t \in threads : WorkerSplit(t)
    \/ \E t \in threads, found \in BOOLEAN, digest \in RepoDigests :
            WorkerLookup(t, found, digest)
    \/ \E a \in AlgorithmIds : ReviewsPost(a, MaxUsers)
    \/ \E id \in ReviewIds : ReviewApprove(id, MaxUsers)
    \/ \E id \in ReviewIds : ReviewReject(id, MaxUsers)

SpecFrame == Init /\ [][NextFrame]_vars

(***************************************************************************)
(* SpecWriters: every request that could write to an algorithm, next to    *)
(* the digest worker. Algorithms are registered with a tagged image and    *)
(* patched with the same image or with none; the docker daemon reports one *)
(* digest; one reviewer, the last user, is assigned to them, approves or   *)
(* rejects, and the reviews are deleted.                                   *)
(***************************************************************************)
NextWriters ==
    \/ AlgorithmsPost("algo:latest")
    \/ \E id \in AlgorithmIds, image \in {"algo:latest", NULL}, refresh_digest \in BOOLEAN :
            AlgorithmPatch(id, image, refresh_digest)
    \/ \E t \in threads : WorkerSplit(t)
    \/ \E t \in threads, found \in BOOLEAN : WorkerLookup(t, found, "sha256:d1")
    \/ \E a \in AlgorithmIds : ReviewsPost(a, MaxUsers)
    \/ \E id \in ReviewIds : ReviewDelete(id)
    \/ \E id \in ReviewIds : ReviewApprove(id, MaxUsers)
    \/ \E id \in ReviewIds : ReviewReject(id, MaxUsers)

SpecWriters == Init /\ [][NextWriters]_vars

(***************************************************************************)
(* SpecApprovals: concurrent approvals. Reviewers are assigned, and then   *)
(* the approve requests run concurrently: each is two steps, the write of  *)
(* its review and the decision on the algorithm, and the steps of          *)
(* different requests interleave. Nothing else happens.                    *)
(***************************************************************************)
\* no approve request has been made
NoApprovalBegun ==
    /\ approving = {}
    /\ \A r \in DOMAIN reviews : reviews[r].status = UNDER_REVIEW

NextApprovals ==
    \/ AlgorithmsPost("algo:latest")
    \/ \E a \in AlgorithmIds, u \in Users : NoApprovalBegun /\ ReviewsPost(a, u)
    \/ \E id \in ReviewIds, u \in Users : ReviewApproveBegin(id, u)
    \/ \E id \in ReviewIds : ReviewApproveEnd(id)

SpecApprovals == Init /\ [][NextApprovals]_vars

(***************************************************************************)
(* SpecVerdicts: reviewers are assigned and give their verdicts; no review *)
(* is deleted. Under SpecVerdictsLive every assigned reviewer eventually   *)
(* approves or rejects the review while it is under review.                *)
(***************************************************************************)
\* the reviewer of review id, which is under review, approves or rejects it
Verdict(id) ==
    /\ id \in DOMAIN reviews
    /\ reviews[id].status = UNDER_REVIEW
    /\ \/ ReviewApprove(id, reviews[id].reviewer_id)
       \/ ReviewReject(id, reviews[id].reviewer_id)

NextVerdicts ==
    \/ AlgorithmsPost("algo:latest")
    \/ \E a \in AlgorithmIds, u \in Users : ReviewsPost(a, u)
    \/ \E id \in ReviewIds : Verdict(id)

SpecVerdicts == Init /\ [][NextVerdicts]_vars

SpecVerdictsLive == SpecVerdicts /\ \A id \in ReviewIds : WF_vars(Verdict(id))

(***************************************************************************)
(* SpecCreateRace: review create requests run beside the verdicts. A       *)
(* create request is two steps, its checks and its writes, and approve and *)
(* reject requests of other reviewers are served between the two.          *)
(***************************************************************************)
NextCreateRace ==
    \/ AlgorithmsPost("algo:latest")
    \/ \E a \in AlgorithmIds, u \in Users : ReviewsPostBegin(a, u)
    \/ \E p \in posting : ReviewsPostEnd(p)
    \/ \E id \in ReviewIds, u \in Users : ReviewApprove(id, u)
    \/ \E id \in ReviewIds, u \in Users : ReviewReject(id, u)

SpecCreateRace == Init /\ [][NextCreateRace]_vars

(***************************************************************************)
(* SpecRace: worker runs of one algorithm beside each other. Algorithms    *)
(* are registered and patched with an image, the patch in two steps, so    *)
(* that the runs started for the images requested one after the other are  *)
(* in flight together. Every run finds its image, and the daemon reports   *)
(* the digest of that image.                                               *)
(***************************************************************************)
NextRace ==
    \/ AlgorithmsPost("algo:latest")
    \/ \E id \in AlgorithmIds, image \in Images, refresh_digest \in BOOLEAN :
            AlgorithmPatchBegin(id, image, refresh_digest)
    \/ \E id \in AlgorithmIds : AlgorithmPatchEnd(id)
    \/ \E t \in threads : WorkerSplit(t)
    \/ \E t \in threads : WorkerLookup(t, TRUE, Resolved(t.image_name))

SpecRace == Init /\ [][NextRace]_vars

(***************************************************************************)
(* SpecPatchRace: one worker run beside the patch that started it. A patch *)
(* arrives, with an image or without, when no worker run is in flight, and *)
(* the run it starts makes its steps before or after the handler assigns   *)
(* and saves the image.                                                    *)
(***************************************************************************)
NextPatchRace ==
    \/ \E image \in Images : AlgorithmsPost(image)
    \/ \E id \in AlgorithmIds, image \in Images \cup {NULL}, refresh_digest \in BOOLEAN :
            threads = {} /\ AlgorithmPatchBegin(id, image, refresh_digest)
    \/ \E id \in AlgorithmIds : AlgorithmPatchEnd(id)
    \/ \E t \in threads : WorkerSplit(t)
    \/ \E t \in threads : WorkerLookup(t, TRUE, Resolved(t.image_name))

SpecPatchRace == Init /\ [][NextPatchRace]_vars

(***************************************************************************)
(* SpecManifest: the manifest client. get_digest is called for an image,   *)
(* and the registry and the token service answer its requests, or do not   *)
(* answer in time.                                                         *)
(***************************************************************************)
NextManifest ==
    \/ \E full_image \in FullImages : get_digest(full_image)
    \/ \E r \in ManifestResponses : AnonymousResponse(r)
    \/ \E token_response \in TokenResponses : TokenResponse(token_response)
    \/ \E r \in ManifestResponses : RetryResponse(r)
    \/ RequestTimeout

SpecManifest == Init /\ [][NextManifest]_vars

\* a request of the manifest client is answered, or times out
ClientStep ==
    \/ \E r \in ManifestResponses : AnonymousResponse(r)
    \/ \E token_response \in TokenResponses : TokenResponse(token_response)
    \/ \E r \in ManifestResponses : RetryResponse(r)
    \/ RequestTimeout

\* SpecManifestLive: every request the manifest client sends comes to an
\* end, with an answer or with the timeout of requests.get
SpecManifestLive == SpecManifest /\ WF_vars(ClientStep)

(***************************************************************************)
(* Properties                                                              *)
(***************************************************************************)
\* the non-dropped reviews of algorithm a
NonDropped(revs, a) == {r \in ReviewsOf(revs, a) : revs[r].status # DROPPED}

\* C1: reviewer consensus. In every state reached by review create,
\* approve, reject and delete requests, an approved algorithm has at least
\* one review and each of its non-dropped reviews is approved.
ReviewerConsensus ==
    \A a \in DOMAIN algorithms :
        algorithms[a].status = APPROVED =>
            /\ ReviewsOf(reviews, a) # {}
            /\ \A r \in NonDropped(reviews, a) : reviews[r].status = APPROVED

\* an algorithm became approved by the deletion of a review, and keeps an
\* approved review
ApprovedByDeletion ==
    /\ response.op = "review_delete"
    /\ response.code = OK
    /\ \E a \in DOMAIN algorithms :
        /\ algorithms[a].status = APPROVED
        /\ \E r \in ReviewsOf(reviews, a) : reviews[r].status = APPROVED

\* C2: an approved algorithm has a digest.
ApprovedHasDigest ==
    \A a \in DOMAIN algorithms :
        algorithms[a].status = APPROVED => algorithms[a].digest # NULL

\* C3: the digest is frozen after approval: no step changes the digest of
\* an algorithm that is approved.
DigestFrozenOnceApproved ==
    [][\A a \in DOMAIN algorithms :
            algorithms[a].status = APPROVED =>
                algorithms'[a].digest = algorithms[a].digest]_vars

\* C4: the approve transition. A step that turns a review from under review
\* to approved makes its algorithm approved if all non-dropped reviews of
\* the algorithm are then approved, and otherwise leaves the algorithm
\* under review.
ApproveTransition ==
    [][\A id \in DOMAIN reviews :
            (/\ reviews[id].status = UNDER_REVIEW
             /\ id \in DOMAIN reviews'
             /\ reviews'[id].status = APPROVED)
            => LET a == reviews[id].algorithm_id IN
               IF \A r \in NonDropped(reviews', a) : reviews'[r].status = APPROVED
               THEN algorithms'[a].status = APPROVED
               ELSE /\ algorithms'[a].status = algorithms[a].status
                    /\ algorithms'[a].status = UNDER_REVIEW]_vars

\* an approval was served that left a sibling under review, and the
\* algorithm is under review
ApprovedWithPendingSibling ==
    /\ response.op = "review_approve"
    /\ response.code = OK
    /\ \E a \in DOMAIN algorithms :
        /\ algorithms[a].status = UNDER_REVIEW
        /\ \E r1, r2 \in ReviewsOf(reviews, a) :
            /\ reviews[r1].status = APPROVED
            /\ reviews[r2].status = UNDER_REVIEW

\* C5: order-independence of approvals. When the approve requests run
\* concurrently and nothing else happens, an algorithm whose reviews are
\* all approved, with no approve request of them still running, is approved.
ApprovalsOrderIndependent ==
    \A a \in DOMAIN algorithms :
        (/\ ReviewsOf(reviews, a) # {}
         /\ \A r \in ReviewsOf(reviews, a) :
                reviews[r].status = APPROVED /\ r \notin approving)
        => algorithms[a].status = APPROVED

\* two reviewers approved, both requests have ended, and the algorithm is
\* approved
TwoApprovalsEnded ==
    /\ approving = {}
    /\ \E a \in DOMAIN algorithms :
        /\ algorithms[a].status = APPROVED
        /\ Cardinality(ReviewsOf(reviews, a)) >= 2
        /\ \A r \in ReviewsOf(reviews, a) : reviews[r].status = APPROVED

\* C6: the reject transition. A step that turns a review from under review
\* to rejected makes its algorithm rejected with invalidated_at set, and
\* drops every sibling review that was under review.
RejectTransition ==
    [][\A id \in DOMAIN reviews :
            (/\ reviews[id].status = UNDER_REVIEW
             /\ id \in DOMAIN reviews'
             /\ reviews'[id].status = REJECTED)
            => LET a == reviews[id].algorithm_id IN
               /\ algorithms'[a].status = REJECTED
               /\ algorithms'[a].invalidated_at # NULL
               /\ \A r \in ReviewsOf(reviews, a) \ {id} :
                    reviews[r].status = UNDER_REVIEW =>
                        r \in DOMAIN reviews' /\ reviews'[r].status = DROPPED]_vars

\* a rejection was served on an algorithm with a sibling review
RejectedWithSibling ==
    /\ response.op = "review_reject"
    /\ response.code = OK
    /\ \E a \in DOMAIN algorithms :
        /\ algorithms[a].status = REJECTED
        /\ algorithms[a].invalidated_at # NULL
        /\ \E r1, r2 \in ReviewsOf(reviews, a) :
            /\ reviews[r1].status = REJECTED
            /\ reviews[r2].status = DROPPED
            /\ reviews[r2].comment = NULL

\* C7: a rejected algorithm has no review under review.
RejectedHasNoPendingReview ==
    \A a \in DOMAIN algorithms :
        algorithms[a].status = REJECTED =>
            \A r \in ReviewsOf(reviews, a) : reviews[r].status \in {REJECTED, DROPPED}

\* a review was requested for a rejected algorithm that has reviews
CreateAttemptedOnRejected ==
    /\ response.op = "review_post"
    /\ response.msg = "Algorithm review is already finished!"
    /\ \E a \in DOMAIN algorithms :
        /\ algorithms[a].status = REJECTED
        /\ Cardinality(ReviewsOf(reviews, a)) >= 2

\* C8: approve, then reject. A step that rejects a review makes the
\* algorithm rejected with invalidated_at set and drops every sibling
\* review that was approved.
RejectDropsApproved ==
    [][\A id \in DOMAIN reviews :
            (/\ reviews[id].status = UNDER_REVIEW
             /\ id \in DOMAIN reviews'
             /\ reviews'[id].status = REJECTED)
            => LET a == reviews[id].algorithm_id IN
               /\ algorithms'[a].status = REJECTED
               /\ algorithms'[a].invalidated_at # NULL
               /\ \A r \in ReviewsOf(reviews, a) :
                    reviews[r].status = APPROVED =>
                        r \in DOMAIN reviews' /\ reviews'[r].status = DROPPED]_vars

\* a rejection was served after a sibling had approved with a comment: the
\* sibling is dropped and still carries the comment of its approval
RejectedAfterApproval ==
    /\ response.op = "review_reject"
    /\ response.code = OK
    /\ \E r \in DOMAIN reviews :
        /\ reviews[r].status = DROPPED
        /\ reviews[r].comment # NULL
        /\ algorithms[reviews[r].algorithm_id].status = REJECTED

\* C9: a closed decision is not reopened: no step changes the status of an
\* algorithm that is approved or rejected.
ClosedDecisionStays ==
    [][\A a \in DOMAIN algorithms :
            algorithms[a].status \in {APPROVED, REJECTED} =>
                algorithms'[a].status = algorithms[a].status]_vars

\* the last review of a rejected algorithm was deleted
RejectedWithoutReviews ==
    /\ response.op = "review_delete"
    /\ response.code = OK
    /\ \E a \in DOMAIN algorithms :
        /\ algorithms[a].status = REJECTED
        /\ ReviewsOf(reviews, a) = {}

\* C10: a request to create a review for an algorithm whose review is
\* finished is refused with an error and changes no review and no algorithm.
CreateOnFinishedRefused ==
    [][response'.op = "review_post" =>
        \A a \in DOMAIN algorithms, u \in 0..MaxUsers :
            (/\ algorithms[a].status \in {APPROVED, REJECTED}
             /\ ReviewsPost(a, u))
            => /\ response'.code = BAD_REQUEST
               /\ reviews' = reviews
               /\ algorithms' = algorithms]_vars

\* a review was requested for an approved algorithm and refused
CreateRefusedOnApproved ==
    /\ response.op = "review_post"
    /\ response.code = BAD_REQUEST
    /\ response.msg = "Algorithm review is already finished!"
    /\ \E a \in DOMAIN algorithms : algorithms[a].status = APPROVED

\* the preconditions of a review create other than the one on the developer
OtherPreconditions(a, u) ==
    /\ a \in DOMAIN algorithms
    /\ algorithms[a].status \notin {APPROVED, REJECTED}
    /\ u \in Users
    /\ is_reviewer(u)
    /\ \A r \in DOMAIN reviews :
            ~(reviews[r].algorithm_id = a /\ reviews[r].reviewer_id = u)

\* C11: the guard against self-review. Without the review_own_algorithm
\* policy, a request that assigns the developer of an algorithm as its
\* reviewer is refused and changes no review and no algorithm, and no review
\* is ever held by the developer of its algorithm; with the policy, the
\* request creates the review when the other preconditions hold.
SelfReviewGuard ==
    /\ [](~review_own_algorithm =>
            \A r \in DOMAIN reviews :
                reviews[r].reviewer_id # developer(reviews[r].algorithm_id))
    /\ [][response'.op = "review_post" =>
            \A a \in DOMAIN algorithms :
                ReviewsPost(a, developer(a)) =>
                    /\ ~review_own_algorithm =>
                            /\ response'.code = BAD_REQUEST
                            /\ reviews' = reviews
                            /\ algorithms' = algorithms
                    /\ (review_own_algorithm /\ OtherPreconditions(a, developer(a))) =>
                            /\ response'.code = CREATED
                            /\ \E r \in DOMAIN reviews' \ DOMAIN reviews :
                                /\ reviews'[r].algorithm_id = a
                                /\ reviews'[r].reviewer_id = developer(a)]_vars

\* the developer was assigned to review their own algorithm and the request
\* was refused for that reason
SelfReviewRefused ==
    /\ ~review_own_algorithm
    /\ response.op = "review_post"
    /\ response.code = BAD_REQUEST
    /\ response.msg = "You cannot assign the developer of the algorithm to review their own algorithm!"

\* the reviews of algorithm a held by user u that are not dropped
NonDroppedOfPair(revs, a, u) ==
    {r \in DOMAIN revs : /\ revs[r].algorithm_id = a
                         /\ revs[r].reviewer_id = u
                         /\ revs[r].status # DROPPED}

\* C12: a pair of an algorithm and a reviewer has at most one review that is
\* not dropped, and a request to create a review for a pair that has one is
\* refused and creates nothing.
OneReviewPerPair ==
    /\ [](\A a \in AlgorithmIds, u \in Users :
            Cardinality(NonDroppedOfPair(reviews, a, u)) <= 1)
    /\ [][response'.op = "review_post" =>
            \A a \in DOMAIN algorithms, u \in Users :
                (NonDroppedOfPair(reviews, a, u) # {} /\ ReviewsPost(a, u))
                => /\ response'.code = BAD_REQUEST
                   /\ reviews' = reviews
                   /\ next_review_id' = next_review_id]_vars

\* a reviewer was assigned a second time to an algorithm under review and
\* the request was refused for that reason
DuplicateCreateRefused ==
    /\ response.op = "review_post"
    /\ response.code = BAD_REQUEST
    /\ response.msg = "Reviewer has already reviewed this algorithm!"
    /\ \E a \in DOMAIN algorithms, u \in Users :
            /\ algorithms[a].status = UNDER_REVIEW
            /\ NonDroppedOfPair(reviews, a, u) # {}

\* C13: review creation is all or nothing. A request to create a review
\* that violates a precondition (the algorithm exists and is not finished,
\* the reviewer exists and holds the reviewer role, the reviewer is not the
\* developer unless the policy allows it, the reviewer has no review of the
\* algorithm) is refused and changes no review and no algorithm.
CreateAllOrNothing ==
    [][response'.op = "review_post" =>
        \A a \in AlgorithmIds, u \in 0..MaxUsers :
            (/\ ~(/\ OtherPreconditions(a, u)
                  /\ (u # developer(a) \/ review_own_algorithm))
             /\ ReviewsPost(a, u))
            => /\ response'.code = BAD_REQUEST
               /\ reviews' = reviews
               /\ next_review_id' = next_review_id
               /\ algorithms' = algorithms]_vars

\* a user without the reviewer role was assigned to an algorithm that
\* awaits its first reviewer, and the request was refused
CreateRefusedForRole ==
    /\ response.op = "review_post"
    /\ response.code = BAD_REQUEST
    /\ response.msg = "User is not allowed to review algorithms!"
    /\ \E a \in DOMAIN algorithms :
            algorithms[a].status = AWAITING_REVIEWER_ASSIGNMENT

\* C14: a successful review creation. A request that creates a review for
\* an algorithm adds exactly one review, under review, of the given
\* algorithm and reviewer, leaves the other reviews as they were, and puts
\* the algorithm, which awaited a reviewer or was under review, under
\* review.
CreateTransition ==
    [][(response'.op = "review_post" /\ response'.code = CREATED) =>
        \A a \in AlgorithmIds, u \in 0..MaxUsers :
            ReviewsPost(a, u) =>
                /\ algorithms[a].status \in {AWAITING_REVIEWER_ASSIGNMENT, UNDER_REVIEW}
                /\ algorithms' = [algorithms EXCEPT ![a].status = UNDER_REVIEW]
                /\ Cardinality(DOMAIN reviews' \ DOMAIN reviews) = 1
                /\ \A r \in DOMAIN reviews' \ DOMAIN reviews :
                        /\ reviews'[r].algorithm_id = a
                        /\ reviews'[r].reviewer_id = u
                        /\ reviews'[r].status = UNDER_REVIEW
                /\ \A r \in DOMAIN reviews :
                        r \in DOMAIN reviews' /\ reviews'[r] = reviews[r]]_vars

\* a second reviewer was assigned to an algorithm that was under review
SecondReviewCreated ==
    /\ response.op = "review_post"
    /\ response.code = CREATED
    /\ \E a \in DOMAIN algorithms :
            /\ algorithms[a].status = UNDER_REVIEW
            /\ Cardinality(ReviewsOf(reviews, a)) = 2
            /\ \E r \in ReviewsOf(reviews, a) : reviews[r].status = UNDER_REVIEW

\* the reviews left when review id is removed from table revs
WithoutReview(revs, id) == [r \in DOMAIN revs \ {id} |-> revs[r]]

\* C15: deleting the only review. A request that deletes the only review of
\* an algorithm that is neither approved nor rejected removes the review and
\* makes the algorithm await a reviewer.
DeleteOnlyReview ==
    [][response'.op = "review_delete" =>
        \A id \in DOMAIN reviews :
            LET a == reviews[id].algorithm_id IN
            (/\ algorithms[a].status \notin {APPROVED, REJECTED}
             /\ ReviewsOf(reviews, a) = {id}
             /\ ReviewDelete(id))
            => /\ response'.code = OK
               /\ reviews' = WithoutReview(reviews, id)
               /\ algorithms' = [algorithms EXCEPT
                        ![a].status = AWAITING_REVIEWER_ASSIGNMENT]]_vars

\* the only review of an algorithm was deleted and the algorithm awaits a
\* reviewer again
OnlyReviewDeleted ==
    /\ response.op = "review_delete"
    /\ response.code = OK
    /\ next_review_id > 1
    /\ \E a \in DOMAIN algorithms :
            /\ algorithms[a].status = AWAITING_REVIEWER_ASSIGNMENT
            /\ ReviewsOf(reviews, a) = {}

\* C16: deleting one of several reviews. A request that deletes a review of
\* an algorithm that is neither approved nor rejected and has other reviews
\* removes the review; the algorithm becomes approved if all the reviews
\* left are approved and keeps its status otherwise.
DeleteOneOfSeveral ==
    [][response'.op = "review_delete" =>
        \A id \in DOMAIN reviews :
            LET a == reviews[id].algorithm_id
                left == ReviewsOf(reviews, a) \ {id}
            IN
            (/\ algorithms[a].status \notin {APPROVED, REJECTED}
             /\ left # {}
             /\ ReviewDelete(id))
            => /\ response'.code = OK
               /\ reviews' = WithoutReview(reviews, id)
               /\ algorithms' =
                    IF \A r \in left : reviews[r].status = APPROVED
                    THEN [algorithms EXCEPT ![a].status = APPROVED]
                    ELSE algorithms]_vars

\* a review was deleted and the algorithm is still under review, with a
\* review left that is not approved
DeletedWithPendingLeft ==
    /\ response.op = "review_delete"
    /\ response.code = OK
    /\ \E a \in DOMAIN algorithms :
            /\ algorithms[a].status = UNDER_REVIEW
            /\ \E r \in ReviewsOf(reviews, a) : reviews[r].status = UNDER_REVIEW

\* C17: the reviews of an approved algorithm stay. A request that deletes a
\* review of an approved algorithm is refused with an error; the review
\* stays as it was, and so do the status, the digest and invalidated_at of
\* the algorithm.
DeleteOnApprovedRefused ==
    [][response'.op = "review_delete" =>
        \A id \in DOMAIN reviews :
            LET a == reviews[id].algorithm_id IN
            (algorithms[a].status = APPROVED /\ ReviewDelete(id))
            => /\ response'.code = BAD_REQUEST
               /\ id \in DOMAIN reviews'
               /\ reviews'[id] = reviews[id]
               /\ algorithms'[a].status = algorithms[a].status
               /\ algorithms'[a].digest = algorithms[a].digest
               /\ algorithms'[a].invalidated_at = algorithms[a].invalidated_at]_vars

\* the deletion of a review of an approved algorithm was refused
DeleteRefusedOnApproved ==
    /\ response.op = "review_delete"
    /\ response.code = BAD_REQUEST
    /\ response.msg = "Reviews of approved algorithms may not be deleted!"
    /\ \E a \in DOMAIN algorithms :
            /\ algorithms[a].status = APPROVED
            /\ ReviewsOf(reviews, a) # {}

\* C18: only the assigned reviewer gives the verdict. A request to approve
\* or to reject a review made by a user who is not the reviewer of the
\* review is refused and changes no review and no algorithm.
VerdictByAssignedOnly ==
    [][response'.op \in {"review_approve", "review_reject"} =>
        \/ /\ response'.code = UNAUTHORIZED
           /\ reviews' = reviews
           /\ algorithms' = algorithms
        \/ \A id \in DOMAIN reviews, u \in Users :
                ~ /\ u # reviews[id].reviewer_id
                  /\ \/ ReviewApprove(id, u)
                     \/ ReviewReject(id, u)]_vars

\* a user who is not the reviewer of a review under review asked to reject
\* it and was refused
RejectByOtherRefused ==
    /\ response.op = "review_reject"
    /\ response.code = UNAUTHORIZED
    /\ \E r \in DOMAIN reviews : reviews[r].status = UNDER_REVIEW

PinnedDigestShortCircuit ==
    [][\A t \in threads :
        LET split == split_tag_from_image(t.image_name) IN
        (is_hex_digest(split[2]) /\ WorkerSplit(t))
        => /\ algorithms'[t.algorithm_id].digest = "sha256:" \o split[2]
           /\ threads' = threads \ {t}]_vars

\* C21: anonymous, then bearer. The first request of the manifest client
\* is the manifest GET without authorization. A token request is sent only
\* on a 401 response to it that carries a challenge, to the realm of the
\* challenge with its scope and service; the manifest GET is repeated, with
\* the bearer token, only after the token request, and the call then ends
\* with what the repeated request was answered.
AnonymousThenBearer ==
    /\ [](client.pc # "idle" =>
            /\ Len(client.calls) \in 1..3
            /\ client.calls[1] =
                    Request(manifest_endpoint(client.full_image), <<>>, NULL)
            /\ client.pc = "anonymous" => Len(client.calls) = 1
            /\ Len(client.calls) >= 2 =>
                    client.calls[2] = Request(ParamValue("realm"),
                        <<ParamValue("scope"), ParamValue("service")>>, NULL)
            /\ Len(client.calls) = 3 =>
                    /\ client.calls[3].url = client.calls[1].url
                    /\ \E token \in Tokens :
                            client.calls[3].authorization = "Bearer " \o token)
    /\ [][/\ (client.pc = "anonymous" /\ client'.pc # "anonymous"
                /\ client'.response.status_code # UNAUTHORIZED)
             => (client'.pc = "done" /\ client'.calls = client.calls)
          /\ Len(client'.calls) = 2 =>
                /\ client'.response.status_code = UNAUTHORIZED
                /\ client'.response.www_authenticate # <<>>
          /\ (Len(client'.calls) = 3 /\ Len(client.calls) # 3)
             => (client.pc = "token" /\ client'.pc = "retry")
          /\ (client.pc = "retry" /\ client'.result.kind = "returned")
             => /\ client'.response.status_code = OK
                /\ client'.result.digest \in
                     {client'.response.content_digest,
                      __calculate_digest(client'.response.json)}]_vars

\* a call of get_digest returned after the three requests
ReturnedAfterRetry ==
    /\ client.pc = "done"
    /\ Len(client.calls) = 3
    /\ client.result.kind = "returned"

\* the manifest requests among the requests sent by the call in progress
ManifestGets ==
    {i \in 1..Len(client.calls) :
        client.calls[i].url = manifest_endpoint(client.full_image)}

\* C22: bounded calls. A call of the manifest client sends at most two
\* manifest requests, the anonymous one and one with a token, and, every
\* request ending with an answer or a timeout, the call ends with a result.
BoundedCalls ==
    /\ [](client.pc # "idle" =>
            /\ Cardinality(ManifestGets) <= 2
            /\ Len(client.calls) <= 3)
    /\ (client.pc \in {"anonymous", "token", "retry"}) ~>
            (client.pc = "done" /\ client.result.kind # "none")

\* the request with the token was refused, and the call ended with an
\* error after two manifest requests
RetryRefused ==
    /\ client.pc = "done"
    /\ Cardinality(ManifestGets) = 2
    /\ client.response.status_code = UNAUTHORIZED
    /\ client.result.kind = "ValueError"

\* the error of the manifest client that carries the manifest URL
ProtocolError(full_image) ==
    [kind |-> "ValueError",
     msg |-> "Could not retrieve image manifest from " \o manifest_endpoint(full_image),
     digest |-> NULL]

ChallengeOrderIndependent ==
    [][client.pc = "anonymous" =>
        \A r \in ManifestResponses :
            (/\ r.status_code = UNAUTHORIZED
             /\ r.www_authenticate \in BearerChallenges
             /\ AnonymousResponse(r))
            => /\ client'.pc = "token"
               /\ client'.calls = Append(client.calls,
                    Request(ParamValue("realm"),
                        <<ParamValue("scope"), ParamValue("service")>>, NULL))]_vars

\* C25: the content-digest header comes first. When get_digest returns, it
\* returns the Docker-Content-Digest header of the last manifest response
\* as it is if the response has one, and otherwise "sha256:" followed by
\* the SHA-256 of the manifest serialised as JSON with an indentation of
\* three spaces.
DigestPrecedence ==
    (client.pc = "done" /\ client.result.kind = "returned") =>
        /\ client.response.content_digest # NULL =>
                client.result.digest = client.response.content_digest
        /\ client.response.content_digest = NULL =>
                client.result.digest =
                    "sha256:" \o hexdigest(json_dumps(client.response.json))
        /\ (/\ client.response.content_digest = NULL
            /\ client.response.json = << <<"schemaVersion", "2">> >>) =>
                client.result.digest =
                    "sha256:hex<{\n   \"schemaVersion\": 2\n}>"

\* the request with the token was answered with a manifest and a
\* content-digest header, and get_digest returned the header
HeaderReturnedAfterRetry ==
    /\ client.pc = "done"
    /\ Len(client.calls) = 3
    /\ client.response.status_code = OK
    /\ client.response.content_digest = "sha256:c1"
    /\ client.result = Returned("sha256:c1")

\* C26: a worker run that fails writes nothing. When the run started by
\* the registration of an algorithm ends because the image is not found,
\* and no request was served since the registration, the algorithm has no
\* digest and the image it was registered with.
FailedRunWritesNothing ==
    [][response.op = "algorithm_post" =>
        \A t \in threads :
            (/\ t.algorithm_id = Len(algorithms)
             /\ \E digest \in RepoDigests : WorkerLookup(t, FALSE, digest))
            => /\ algorithms'[t.algorithm_id].digest = NULL
               /\ algorithms'[t.algorithm_id].image = t.image_name]_vars

\* C27: a worker run that succeeds. When the lookup of a worker finds the
\* image, the step writes the digest found and the image without its tag
\* onto the algorithm of the worker as it is stored at that moment, and
\* changes nothing else: no other field, no other algorithm, no review.
WorkerSuccessWrites ==
    [][threads' # threads =>
        \A t \in threads, digest \in RepoDigests :
            (t.pc = "lookup" /\ WorkerLookup(t, TRUE, digest))
            => /\ algorithms' =
                    [algorithms EXCEPT
                        ![t.algorithm_id].digest = digest,
                        ![t.algorithm_id].image =
                            split_tag_from_image(t.image_name)[1]]
               /\ algorithms'[t.algorithm_id].image \notin Images
               /\ reviews' = reviews]_vars

\* a worker has stored a digest and the image without its tag on an
\* algorithm that was approved in the meantime or before
DigestStoredOnApproved ==
    /\ threads = {}
    /\ \E a \in DOMAIN algorithms :
            /\ algorithms[a].status = APPROVED
            /\ algorithms[a].digest \in RepoDigests
            /\ algorithms[a].image = "algo"

\* a worker run for image image_name of algorithm a that has not made a step
NewRun(a, image_name) ==
    [algorithm_id |-> a, image_name |-> image_name, pc |-> "split"]

\* C28: the worker runs again on a change. The registration of an
\* algorithm starts one worker run for its image, and a patch that gives
\* another image than the stored one, or that sets refresh_digest, starts a
\* worker run for the image given, or for the stored one if none is given,
\* whether or not the algorithm has a digest.
WorkerStartedOnChange ==
    [][/\ response'.op = "algorithm_post" =>
            \A image \in Images :
                AlgorithmsPost(image) =>
                    /\ NewRun(Len(algorithms) + 1, image) \in threads'
                    /\ Cardinality(threads' \ threads) = 1
       /\ (response'.op = "algorithm_patch" /\ response'.code = OK) =>
            \A id \in DOMAIN algorithms, image \in Images \cup {NULL},
               refresh_digest \in BOOLEAN :
                (/\ (image # NULL /\ image # algorithms[id].image) \/ refresh_digest
                 /\ AlgorithmPatch(id, image, refresh_digest))
                => NewRun(id, IF image # NULL THEN image
                              ELSE algorithms[id].image) \in threads']_vars

\* an algorithm that has a digest was patched, and a worker run was started
\* for it
RunStartedWithDigestStored ==
    /\ response.op = "algorithm_patch"
    /\ response.code = OK
    /\ \E t \in threads :
            /\ t.pc = "split"
            /\ algorithms[t.algorithm_id].digest \in RepoDigests

\* C29: registration does not wait for the digest. The registration of an
\* algorithm returns with the algorithm stored without a digest and its
\* worker run not begun; and while worker runs are unfinished, however long,
\* every review request can be served, and so can a registration.
RegistrationNeverWaits ==
    /\ [][Len(algorithms') # Len(algorithms) =>
            /\ response' = Response("algorithm_post", CREATED, "")
            /\ Len(algorithms') = Len(algorithms) + 1
            /\ algorithms'[Len(algorithms')].digest = NULL
            /\ NewRun(Len(algorithms'), algorithms'[Len(algorithms')].image)
                    \in threads']_vars
    /\ [](threads # {} =>
            /\ \A id \in ReviewIds : ENABLED ReviewDelete(id)
            /\ \A id \in ReviewIds, u \in Users :
                    ENABLED ReviewApprove(id, u) /\ ENABLED ReviewReject(id, u)
            /\ \A a \in AlgorithmIds, u \in Users :
                    next_review_id <= MaxReviews => ENABLED ReviewsPost(a, u)
            /\ (Len(algorithms) < MaxAlgorithms /\ Cardinality(threads) < MaxThreads)
                    => ENABLED AlgorithmsPost("algo:latest"))

\* an algorithm was approved while its worker run had not begun: it has no
\* digest
ApprovedWhileWorkerPending ==
    \E t \in threads :
        /\ t.pc = "split"
        /\ algorithms[t.algorithm_id].status = APPROVED
        /\ algorithms[t.algorithm_id].digest = NULL

\* the algorithms after a refresh-digest request for algorithm id whose
\* worker run has completed: Algorithm.patch, then _save_image_digest with
\* the docker lookup answering found and digest
Refreshed(algs, id, image, found, digest) ==
    LET image_name == RunImage(algs, id, image)
        split == AfterSplit(Patched(algs, id, image), id, image_name)
    IN  IF SplitRaises(image_name)
        THEN split
        ELSE AfterLookup(split, id, image_name, found, digest)

VerdictOnlyOnce ==
    [][response'.op \in {"review_approve", "review_reject"} =>
        \A id \in DOMAIN reviews :
            (/\ reviews[id].status # UNDER_REVIEW
             /\ \/ ReviewApprove(id, reviews[id].reviewer_id)
                \/ ReviewReject(id, reviews[id].reviewer_id))
            => /\ response'.code = BAD_REQUEST
               /\ reviews' = reviews
               /\ algorithms' = algorithms]_vars

\* the reviewer of an approved review asked to reject it, while the
\* algorithm was under review, and was refused
SecondVerdictRefused ==
    /\ response = Response("review_reject", BAD_REQUEST,
                           "This review can no longer be approved!")
    /\ \E r \in DOMAIN reviews :
            /\ reviews[r].status = APPROVED
            /\ algorithms[reviews[r].algorithm_id].status = UNDER_REVIEW

\* C36: no stuck review. An algorithm that awaits a reviewer has no
\* reviews, and an algorithm under review has a review that is under
\* review.
NoStuckReview ==
    \A a \in DOMAIN algorithms :
        /\ algorithms[a].status = AWAITING_REVIEWER_ASSIGNMENT =>
                ReviewsOf(reviews, a) = {}
        /\ algorithms[a].status = UNDER_REVIEW =>
                \E r \in ReviewsOf(reviews, a) : reviews[r].status = UNDER_REVIEW

\* an algorithm under review of two reviewers lost the review that was
\* approved: the review left is under review
ApprovedReviewDeleted ==
    /\ response = Response("review_delete", OK, "deleted")
    /\ \E a \in DOMAIN algorithms :
            /\ algorithms[a].status = UNDER_REVIEW
            /\ \E r \in ReviewsOf(reviews, a) :
                    /\ ReviewsOf(reviews, a) = {r}
                    /\ reviews[r].status = UNDER_REVIEW
                    /\ r > 1

\* C37: the status of a review moves forward. A review is created under
\* review; a step changes the status of a review under review to approved,
\* rejected or dropped, that of an approved review to dropped, and that of
\* a rejected or dropped review not at all.
ReviewStatusForward ==
    [][/\ \A id \in DOMAIN reviews' \ DOMAIN reviews :
            reviews'[id].status = UNDER_REVIEW
       /\ \A id \in DOMAIN reviews \cap DOMAIN reviews' :
            \/ reviews'[id].status = reviews[id].status
            \/ /\ reviews[id].status = UNDER_REVIEW
               /\ reviews'[id].status \in {APPROVED, REJECTED, DROPPED}
            \/ /\ reviews[id].status = APPROVED
               /\ reviews'[id].status = DROPPED]_vars

\* a review that was approved with a comment was dropped by the rejection
\* of a sibling, and a later request to approve one of the two was refused
DroppedStaysDropped ==
    /\ response = Response("review_approve", BAD_REQUEST,
                           "This review can no longer be approved!")
    /\ \E r1, r2 \in DOMAIN reviews :
            /\ reviews[r1].status = REJECTED
            /\ reviews[r2].status = DROPPED
            /\ reviews[r2].comment # NULL
            /\ reviews[r1].algorithm_id = reviews[r2].algorithm_id

\* C39: the reviews of a rejected algorithm may be deleted. A request that
\* deletes a review of a rejected algorithm removes the review and changes
\* nothing else: the algorithm stays rejected and keeps invalidated_at,
\* whichever of its reviews is deleted.
DeleteOnRejected ==
    [][response'.op = "review_delete" =>
        \A id \in DOMAIN reviews :
            LET a == reviews[id].algorithm_id IN
            (algorithms[a].status = REJECTED /\ ReviewDelete(id))
            => /\ response'.code = OK
               /\ reviews' = WithoutReview(reviews, id)
               /\ algorithms' = algorithms
               /\ algorithms'[a].status = REJECTED
               /\ algorithms'[a].invalidated_at # NULL]_vars

\* the rejected review of a rejected algorithm was deleted, and only a
\* dropped review is left
RejectedReviewDeleted ==
    /\ response = Response("review_delete", OK, "deleted")
    /\ \E a \in DOMAIN algorithms :
            /\ algorithms[a].status = REJECTED
            /\ algorithms[a].invalidated_at # NULL
            /\ ReviewsOf(reviews, a) # {}
            /\ \A r \in ReviewsOf(reviews, a) : reviews[r].status = DROPPED

\* C33: a patch starts a worker run only for a new image or a refresh. A
\* patch that has no image, or the image that is stored, and does not set
\* refresh_digest starts no worker run and leaves the digest and the image
\* of its algorithm as they are.
PatchWithoutChangeStartsNothing ==
    [][(response'.op = "algorithm_patch" /\ response'.code = OK) =>
        \A id \in DOMAIN algorithms :
            \A image \in {NULL, algorithms[id].image} :
                AlgorithmPatch(id, image, FALSE)
                => /\ threads' = threads
                   /\ algorithms'[id].digest = algorithms[id].digest
                   /\ algorithms'[id].image = algorithms[id].image]_vars

\* C31: the digest has one writer. A registration stores its algorithm
\* without a digest, and the digest of an algorithm changes only in a step
\* of a digest worker run of that algorithm: no step of a registration, of
\* a patch or of a review create, approve, reject or delete request
\* changes a digest.
SingleDigestWriter ==
    [][/\ \A a \in DOMAIN algorithms' \ DOMAIN algorithms :
            algorithms'[a].digest = NULL
       /\ \A a \in DOMAIN algorithms :
            algorithms'[a].digest # algorithms[a].digest =>
                \E t \in threads \ threads' : t.algorithm_id = a
       /\ response' # response =>
            \A a \in DOMAIN algorithms :
                algorithms'[a].digest = algorithms[a].digest]_vars

\* an algorithm whose digest was stored went through a patch and a review,
\* was rejected, and its review was deleted: it has the digest
DigestKeptThroughRequests ==
    /\ response = Response("review_delete", OK, "deleted")
    /\ threads = {}
    /\ \E a \in DOMAIN algorithms :
            /\ algorithms[a].digest \in RepoDigests
            /\ algorithms[a].status = REJECTED

\* C38: review completion. When no review is deleted and every assigned
\* reviewer eventually approves or rejects the review, an algorithm that
\* has a review eventually is approved or rejected, and an algorithm that
\* is approved or rejected stays so.
ReviewCompletes ==
    /\ \A a \in AlgorithmIds :
            (a \in DOMAIN algorithms /\ ReviewsOf(reviews, a) # {})
                ~> (/\ a \in DOMAIN algorithms
                    /\ algorithms[a].status \in {APPROVED, REJECTED})
    /\ [][\A a \in DOMAIN algorithms :
                algorithms[a].status \in {APPROVED, REJECTED} =>
                    algorithms'[a].status = algorithms[a].status]_vars

\* the two reviewers of an algorithm have given their verdicts, the second
\* one after the first had approved, and the algorithm is approved or
\* rejected
VerdictsComplete ==
    \E a \in DOMAIN algorithms :
        /\ algorithms[a].status \in {APPROVED, REJECTED}
        /\ Cardinality(ReviewsOf(reviews, a)) >= 2
        /\ \A r \in ReviewsOf(reviews, a) :
                reviews[r].status # UNDER_REVIEW /\ reviews[r].comment # NULL

\* C34: a rejection is not undone by a racing request. Whatever the
\* interleaving of a review create request with the verdicts of other
\* reviewers, an algorithm that has a rejected review is rejected and has
\* no review under review.
RejectionStands ==
    \A a \in DOMAIN algorithms :
        (\E r \in ReviewsOf(reviews, a) : reviews[r].status = REJECTED)
        => /\ algorithms[a].status = REJECTED
           /\ \A r \in ReviewsOf(reviews, a) : reviews[r].status # UNDER_REVIEW

\* a patch of algorithm a was served to its end and no worker run of a is
\* in flight
Settled(a) ==
    /\ a \in DOMAIN patches
    /\ patches[a].saved
    /\ \A t \in threads : t.algorithm_id # a

\* C32: no racing digest writers. Once the patches of an algorithm are
\* served and all its worker runs have finished, in whatever order their
\* steps were taken, the digest stored is the digest of the image that was
\* requested last.
LatestImageWins ==
    \A a \in DOMAIN algorithms :
        Settled(a) => algorithms[a].digest = Resolved(patches[a].image)

\* C40: the race of a patch with its worker on the image. After a patch
\* with an image, once the handler and the worker run it started have both
\* finished, in whatever order, the image stored is the image of the patch
\* without its tag and the digest stored is the digest of that image.
PatchedImageStripped ==
    \A a \in DOMAIN algorithms :
        (Settled(a) /\ patches[a].image # NULL) =>
            /\ algorithms[a].image = split_tag_from_image(patches[a].image)[1]
            /\ algorithms[a].digest = Resolved(patches[a].image)

====
